---- MODULE Spec2Model ----
(***************************************************************************)
(* Model of the data ingestion and synchronisation pipeline of the Jalisco *)
(* tourism dashboard (src/app.js).                                         *)
(*                                                                         *)
(* src/app.js holds two builds of the script: the "Version Final           *)
(* Corregida" (lines 1-543) and the "Version Mejorada" (lines 545-1246).   *)
(* The variable `version` selects the build (1 or 2); it is chosen in Init *)
(* and never changes.  The builds differ in the startup load               *)
(* (loadTurismoData) and in the blank-row rule of parseCSVText.            *)
(*                                                                         *)
(* A JavaScript string is modelled as the sequence of its UTF-16 code      *)
(* units (what csvText[i] and charCodeAt(0) read).                         *)
(***************************************************************************)
EXTENDS Integers, Sequences, FiniteSets, TLC

(***************************************************************************)
(* String primitives of the language used by the parser and the normalizer *)
(***************************************************************************)

\* White space as String.prototype.trim and parseFloat strip it
IsWhiteSpace(c) ==
    c \in ({9, 10, 11, 12, 13, 32, 160, 5760, 8232, 8233, 8239, 8287, 12288, 65279}
            \cup (8192..8202))

RECURSIVE TrimStart(_)
TrimStart(s) ==
    IF s = <<>> THEN s
    ELSE IF IsWhiteSpace(Head(s)) THEN TrimStart(Tail(s)) ELSE s

RECURSIVE TrimEnd(_)
TrimEnd(s) ==
    IF s = <<>> THEN s
    ELSE IF IsWhiteSpace(s[Len(s)]) THEN TrimEnd(SubSeq(s, 1, Len(s) - 1)) ELSE s

\* str.trim()
trim(s) == TrimEnd(TrimStart(s))

\* index of the first comma of s, 0 when there is none
RECURSIVE FirstComma(_, _)
FirstComma(s, i) ==
    IF i > Len(s) THEN 0
    ELSE IF s[i] = 44 THEN i ELSE FirstComma(s, i + 1)

\* str.replace(',', '.'): only the first comma is rewritten
replaceComma(s) ==
    LET k == FirstComma(s, 1)
    IN  IF k = 0 THEN s ELSE [s EXCEPT ![k] = 46]

(***************************************************************************)
(* parseCSVText: one left-to-right scan, st = the loop's local variables   *)
(***************************************************************************)

\* currentRow.some(...): build 1 tests field.trim().length > 0,
\* build 2 tests f.length > 0
RowHasContent(row, v) ==
    \E k \in 1..Len(row) :
        IF v = 1 THEN Len(trim(row[k])) > 0 ELSE Len(row[k]) > 0

\* push the pending field, push the row unless it is blank, reset both
FlushRow(st, v) ==
    LET row == Append(st.currentRow, st.currentField)
    IN  [st EXCEPT !.rows = IF RowHasContent(row, v) THEN Append(@, row) ELSE @,
                   !.currentRow = <<>>,
                   !.currentField = <<>>]

\* the guard `currentField || currentRow.length > 0`
RowPending(st) == st.currentField # <<>> \/ Len(st.currentRow) > 0

\* an iteration in which a quote always toggles quoted mode: a doubled quote
\* inside a quoted field closes and reopens it instead of standing for a quote
ScanStepNoEscape(text, st, v) ==
    IF st.i > Len(text) THEN st
    ELSE
      LET i == st.i
          char == text[i]
          nextChar == IF i + 1 <= Len(text) THEN text[i + 1] ELSE -1
      IN  IF char = 34
          THEN [st EXCEPT !.inQuotes = ~@, !.i = i + 1]
          ELSE IF char = 44 /\ ~st.inQuotes
          THEN [st EXCEPT !.currentRow = Append(@, st.currentField),
                          !.currentField = <<>>, !.i = i + 1]
          ELSE IF char \in {10, 13} /\ ~st.inQuotes
          THEN [(IF RowPending(st) THEN FlushRow(st, v) ELSE st)
                    EXCEPT !.i = IF char = 13 /\ nextChar = 10 THEN i + 2 ELSE i + 1]
          ELSE [st EXCEPT !.currentField = Append(@, char), !.i = i + 1]

\* one iteration of the for loop, i++ included; i is 1-based here.  Past the
\* end of the text the loop has exited and nothing changes.
ScanStep(text, st, v) ==
    IF st.i > Len(text) THEN st
    ELSE
      LET i == st.i
          char == text[i]
          nextChar == IF i + 1 <= Len(text) THEN text[i + 1] ELSE -1
      IN  IF char = 34
          THEN IF st.inQuotes /\ nextChar = 34
               THEN [st EXCEPT !.currentField = Append(@, 34), !.i = i + 2]
               ELSE [st EXCEPT !.inQuotes = ~@, !.i = i + 1]
          ELSE IF char = 44 /\ ~st.inQuotes
          THEN [st EXCEPT !.currentRow = Append(@, st.currentField),
                          !.currentField = <<>>, !.i = i + 1]
          ELSE IF char \in {10, 13} /\ ~st.inQuotes
          THEN [(IF RowPending(st) THEN FlushRow(st, v) ELSE st)
                    EXCEPT !.i = IF char = 13 /\ nextChar = 10 THEN i + 2 ELSE i + 1]
          ELSE [st EXCEPT !.currentField = Append(@, char), !.i = i + 1]

\* up to k iterations of the loop, stopping when i passes the end of the
\* text (split in halves to keep the evaluation shallow; an intermediate
\* value is bound by a choice from a singleton so that it is computed once)
RECURSIVE Scan(_, _, _, _)
Scan(text, st, k, v) ==
    IF k = 0 THEN st
    ELSE IF k = 1 THEN ScanStep(text, st, v)
    ELSE CHOOSE r \in { IF half.i > Len(text) THEN half
                        ELSE Scan(text, half, k - (k \div 2), v)
                        : half \in {Scan(text, st, k \div 2, v)} } : TRUE

\* the locals of parseCSVText when the scan begins
ScanStart ==
    [rows |-> <<>>, currentRow |-> <<>>, currentField |-> <<>>,
     inQuotes |-> FALSE, i |-> 1]

\* a return that drops what is pending when the text ended inside quotes
ScanReturnClosedOnly(st, v) ==
    IF RowPending(st) /\ ~st.inQuotes THEN FlushRow(st, v).rows ELSE st.rows

\* the statements after the loop: flush what is pending, return rows
ScanReturn(st, v) == IF RowPending(st) THEN FlushRow(st, v).rows ELSE st.rows

\* every iteration advances i, so Len(csvText) iterations reach the end
parseCSVText(csvText, v) ==
    CHOOSE rows \in { ScanReturn(st, v)
                      : st \in {Scan(csvText, ScanStart, Len(csvText), v)} } : TRUE

(***************************************************************************)
(* Numbers.  A number value is NaN, an infinity, or a decimal              *)
(*   [kind |-> "num", neg, digits, n]  =  (+/-) 0.d1 d2 .. dk * 10^n       *)
(* with d1 # 0 and dk # 0 (digits = <<>> is zero).  For literals of at     *)
(* most 15 significant digits this is the double the literal denotes, and  *)
(* its digits are those Number::toString prints.                           *)
(***************************************************************************)

IsDigit(c) == c \in 48..57

\* number of consecutive digits of s starting at position i
RECURSIVE DigitRun(_, _)
DigitRun(s, i) ==
    IF i <= Len(s) /\ IsDigit(s[i]) THEN 1 + DigitRun(s, i + 1) ELSE 0

RECURSIVE StripLeadingZeros(_)
StripLeadingZeros(d) ==
    IF d # <<>> /\ Head(d) = 0 THEN StripLeadingZeros(Tail(d)) ELSE d

RECURSIVE StripTrailingZeros(_)
StripTrailingZeros(d) ==
    IF d # <<>> /\ d[Len(d)] = 0 THEN StripTrailingZeros(SubSeq(d, 1, Len(d) - 1)) ELSE d

\* value of a run of exponent digits, saturated (beyond 9999 every double
\* is already an infinity or a zero)
RECURSIVE ExpValue(_, _)
ExpValue(d, acc) ==
    IF d = <<>> THEN acc
    ELSE ExpValue(Tail(d), IF acc >= 9999 THEN 9999 ELSE 10 * acc + Head(d))

\* lexicographic d < e on digit sequences, the shorter one zero-padded
RECURSIVE DigitsLess(_, _)
DigitsLess(d, e) ==
    IF e = <<>> THEN FALSE
    ELSE IF d = <<>> THEN TRUE
    ELSE IF Head(d) # Head(e) THEN Head(d) < Head(e)
    ELSE DigitsLess(Tail(d), Tail(e))

NaN == [kind |-> "nan", neg |-> FALSE, digits |-> <<>>, n |-> 0]
Infinite(neg) == [kind |-> "inf", neg |-> neg, digits |-> <<>>, n |-> 0]

\* the double nearest to (+/-) 0.digits * 10^n: overflow gives an infinity,
\* underflow a zero
MakeNumber(neg, rawDigits, rawN) ==
    LET lead   == Len(rawDigits) - Len(StripLeadingZeros(rawDigits))
        digits == StripTrailingZeros(StripLeadingZeros(rawDigits))
        n      == rawN - lead
    IN  IF digits = <<>> THEN [kind |-> "num", neg |-> neg, digits |-> <<>>, n |-> 0]
        ELSE IF n > 309 \/ (n = 309 /\ ~DigitsLess(digits,
                                 <<1,7,9,7,6,9,3,1,3,4,8,6,2,3,1,5,8>>))
        THEN Infinite(neg)
        ELSE IF n < -323 THEN [kind |-> "num", neg |-> neg, digits |-> <<>>, n |-> 0]
        ELSE [kind |-> "num", neg |-> neg, digits |-> digits, n |-> n]

\* the longest prefix of s that is a StrDecimalLiteral, s without leading
\* white space
StrDecimalPrefix(s) ==
    LET signed == s # <<>> /\ s[1] \in {43, 45}
        neg   == signed /\ s[1] = 45
        p     == IF signed THEN 2 ELSE 1
        ni    == DigitRun(s, p)
        q     == p + ni
        dot   == q <= Len(s) /\ s[q] = 46
        nf    == IF dot THEN DigitRun(s, q + 1) ELSE 0
        r     == IF dot /\ (ni > 0 \/ nf > 0) THEN q + 1 + nf ELSE q
        hasE  == r <= Len(s) /\ s[r] \in {101, 69}
        eSign == hasE /\ r + 1 <= Len(s) /\ s[r + 1] \in {43, 45}
        ePos  == IF eSign THEN r + 2 ELSE r + 1
        ne    == IF hasE THEN DigitRun(s, ePos) ELSE 0
        eAbs  == IF ne > 0
                 THEN ExpValue([k \in 1..ne |-> s[ePos + k - 1] - 48], 0)
                 ELSE 0
        exp   == IF eSign /\ s[r + 1] = 45 THEN -eAbs ELSE eAbs
        mant  == [k \in 1..(ni + nf) |->
                     IF k <= ni THEN s[p + k - 1] - 48 ELSE s[q + k - ni] - 48]
    IN  IF Len(s) >= p + 7
           /\ SubSeq(s, p, p + 7) = <<73,110,102,105,110,105,116,121>>
        THEN Infinite(neg)
        ELSE IF ni + nf = 0 THEN NaN
        ELSE MakeNumber(neg, mant, ni + exp)

\* parseFloat(string)
parseFloat(str) ==
    CHOOSE x \in {StrDecimalPrefix(s) : s \in {TrimStart(str)}} : TRUE

isNaN(x) == x.kind = "nan"

\* Number::toString (radix 10) of a finite number
NumberToString(x) ==
    LET k    == Len(x.digits)
        n    == x.n
        ds   == [i \in 1..k |-> 48 + x.digits[i]]
        sgn  == IF x.neg THEN <<45>> ELSE <<>>
        zeros(m) == [i \in 1..m |-> 48]
        e    == n - 1
        eAbsV == IF e < 0 THEN -e ELSE e
        eDigs == IF eAbsV >= 100
                 THEN <<48 + (eAbsV \div 100), 48 + ((eAbsV \div 10) % 10), 48 + (eAbsV % 10)>>
                 ELSE IF eAbsV >= 10 THEN <<48 + (eAbsV \div 10), 48 + (eAbsV % 10)>>
                 ELSE <<48 + eAbsV>>
        eStr == <<101, IF e < 0 THEN 45 ELSE 43>> \o eDigs
    IN  IF k = 0 THEN <<48>>
        ELSE IF k <= n /\ n <= 21 THEN sgn \o ds \o zeros(n - k)
        ELSE IF 0 < n /\ n <= 21
        THEN sgn \o SubSeq(ds, 1, n) \o <<46>> \o SubSeq(ds, n + 1, k)
        ELSE IF -6 < n /\ n <= 0 THEN sgn \o <<48, 46>> \o zeros(-n) \o ds
        ELSE IF k = 1 THEN sgn \o ds \o eStr
        ELSE sgn \o <<ds[1], 46>> \o SubSeq(ds, 2, k) \o eStr

(***************************************************************************)
(* parseCSVData: rows -> records, columns read at fixed positions          *)
(***************************************************************************)

\* `idx >= 0 && idx < row.length ? row[idx].trim() : ''` (idx is 0-based)
FieldAt(row, idx) ==
    IF idx >= 0 /\ idx < Len(row) THEN trim(row[idx + 1]) ELSE <<>>

\* a fallback that is never taken
OrDefaultNever(value, fallback) == value

\* `value || fallback` on strings: the empty string is falsy
OrDefault(value, fallback) == IF value = <<>> THEN fallback ELSE value

\* column positions counted from the first column of the sheet
ColumnIndexFromFirst ==
    [nombre |-> 0, latitud |-> 1, longitud |-> 2, seguridad |-> 3,
     distancia |-> 4, ruta |-> 5, linkTurismo |-> 6, securityTips |-> 7]

\* the fixed column positions (columns B..I of the sheet)
ColumnIndex ==
    [nombre |-> 1, latitud |-> 2, longitud |-> 3, seguridad |-> 4,
     distancia |-> 5, ruta |-> 6, linkTurismo |-> 7, securityTips |-> 8]

\* the body of the for loop for one row: <<record>> when the row is
\* accepted, <<>> when it is skipped by one of the two `continue`s
RowRecords(row) ==
    LET nombre      == FieldAt(row, ColumnIndex.nombre)
        latitudStr  == FieldAt(row, ColumnIndex.latitud)
        longitudStr == FieldAt(row, ColumnIndex.longitud)
        latitud     == parseFloat(replaceComma(latitudStr))
        longitud    == parseFloat(replaceComma(longitudStr))
    IN  IF nombre = <<>> \/ latitudStr = <<>> \/ longitudStr = <<>> THEN <<>>
        ELSE IF isNaN(latitud) \/ isNaN(longitud) THEN <<>>
        ELSE << [nombre       |-> nombre,
                 latitud      |-> latitud,
                 longitud     |-> longitud,
                 seguridad    |-> OrDefault(FieldAt(row, ColumnIndex.seguridad),
                     <<73,110,102,111,114,109,97,99,105,243,110,32,110,111,32,
                       100,105,115,112,111,110,105,98,108,101>>),
                 securityTips |-> OrDefault(FieldAt(row, ColumnIndex.securityTips),
                     <<73,110,102,111,114,109,97,116,105,111,110,32,110,111,116,32,
                       97,118,97,105,108,97,98,108,101>>),
                 distancia    |-> OrDefault(FieldAt(row, ColumnIndex.distancia), <<78,47,65>>),
                 ruta         |-> OrDefault(FieldAt(row, ColumnIndex.ruta), <<35>>),
                 linkTurismo  |-> OrDefault(FieldAt(row, ColumnIndex.linkTurismo), <<35>>)] >>

\* a loop that a skipped row ends
RECURSIVE DataRowsUntilSkip(_, _)
DataRowsUntilSkip(rows, i) ==
    IF i > Len(rows) THEN <<>>
    ELSE IF RowRecords(rows[i]) = <<>> THEN <<>>
    ELSE RowRecords(rows[i]) \o DataRowsUntilSkip(rows, i + 1)

\* the for loop of parseCSVData from row i on: the records pushed to data
RECURSIVE DataRows(_, _)
DataRows(rows, i) ==
    IF i > Len(rows) THEN <<>>
    ELSE RowRecords(rows[i]) \o DataRows(rows, i + 1)

parseCSVData(csvText, v) ==
    CHOOSE data \in { IF Len(rows) < 2 THEN <<>> ELSE DataRows(rows, 2)
                      : rows \in {parseCSVText(csvText, v)} } : TRUE

(***************************************************************************)
(* The fingerprint: JSON.stringify(newData) folded by a = (a << 5) - a + c *)
(* truncated to 32 bits                                                    *)
(***************************************************************************)

HexDigit(d) == IF d < 10 THEN 48 + d ELSE 87 + d

\* \uXXXX escape of a code unit
UnicodeEscape(c) ==
    <<92, 117, HexDigit(c \div 4096), HexDigit((c \div 256) % 16),
      HexDigit((c \div 16) % 16), HexDigit(c % 16)>>

\* QuoteJSONString: the characters of one code unit at position i of s
JSONChar(s, i) ==
    LET c == s[i]
    IN  IF c = 34 THEN <<92, 34>>
        ELSE IF c = 92 THEN <<92, 92>>
        ELSE IF c = 8 THEN <<92, 98>>
        ELSE IF c = 12 THEN <<92, 102>>
        ELSE IF c = 10 THEN <<92, 110>>
        ELSE IF c = 13 THEN <<92, 114>>
        ELSE IF c = 9 THEN <<92, 116>>
        ELSE IF c < 32 THEN UnicodeEscape(c)
        ELSE IF c \in 55296..56319
        THEN IF i < Len(s) /\ s[i + 1] \in 56320..57343 THEN <<c>> ELSE UnicodeEscape(c)
        ELSE IF c \in 56320..57343
        THEN IF i > 1 /\ s[i - 1] \in 55296..56319 THEN <<c>> ELSE UnicodeEscape(c)
        ELSE <<c>>

\* the escaped characters of positions lo..hi of s
RECURSIVE JSONChars(_, _, _)
JSONChars(s, lo, hi) ==
    IF lo > hi THEN <<>>
    ELSE IF lo = hi THEN JSONChar(s, lo)
    ELSE JSONChars(s, lo, (lo + hi) \div 2) \o JSONChars(s, ((lo + hi) \div 2) + 1, hi)

JSONString(s) == <<34>> \o JSONChars(s, 1, Len(s)) \o <<34>>

\* JSON.stringify of a number: a non-finite number is written null
JSONNumber(x) ==
    IF x.kind = "num" THEN NumberToString(x) ELSE <<110,117,108,108>>

\* JSON.stringify of one record, keys in creation order
JSONRecord(r) ==
    <<123,34,110,111,109,98,114,101,34,58>> \o JSONString(r.nombre)
    \o <<44,34,108,97,116,105,116,117,100,34,58>> \o JSONNumber(r.latitud)
    \o <<44,34,108,111,110,103,105,116,117,100,34,58>> \o JSONNumber(r.longitud)
    \o <<44,34,115,101,103,117,114,105,100,97,100,34,58>> \o JSONString(r.seguridad)
    \o <<44,34,115,101,99,117,114,105,116,121,84,105,112,115,34,58>>
    \o JSONString(r.securityTips)
    \o <<44,34,100,105,115,116,97,110,99,105,97,34,58>> \o JSONString(r.distancia)
    \o <<44,34,114,117,116,97,34,58>> \o JSONString(r.ruta)
    \o <<44,34,108,105,110,107,84,117,114,105,115,109,111,34,58>>
    \o JSONString(r.linkTurismo) \o <<125>>

RECURSIVE JSONRecords(_, _)
JSONRecords(data, i) ==
    IF i > Len(data) THEN <<>>
    ELSE (IF i > 1 THEN <<44>> ELSE <<>>) \o JSONRecord(data[i]) \o JSONRecords(data, i + 1)

\* JSON.stringify(newData)
JSONStringify(data) == <<91>> \o JSONRecords(data, 1) \o <<93>>

\* one step of the reduce: a = ((a << 5) - a) + b.charCodeAt(0); return a & a
\* that is 31 * a + c reduced to a signed 32-bit integer; computed on 16-bit
\* halves so that no intermediate value leaves the 32-bit range
HashStep(a, c) ==
    LET lo  == a % 65536
        hi  == (a \div 65536) % 65536
        lo2 == 31 * lo + c
        hi2 == (31 * hi + (lo2 \div 65536)) % 65536
        lo3 == lo2 % 65536
    IN  IF hi2 >= 32768 THEN (hi2 - 65536) * 65536 + lo3 ELSE hi2 * 65536 + lo3

\* up to k steps of the reduce over s, from h = [a: accumulator, i: position]
\* (split in halves to keep the evaluation shallow)
RECURSIVE HashScan(_, _, _)
HashScan(s, h, k) ==
    IF k = 0 \/ h.i > Len(s) THEN h
    ELSE IF k = 1 THEN [a |-> HashStep(h.a, s[h.i]), i |-> h.i + 1]
    ELSE CHOOSE r \in { IF half.i > Len(s) THEN half
                        ELSE HashScan(s, half, k - (k \div 2))
                        : half \in {HashScan(s, h, k \div 2)} } : TRUE

\* newHash of a candidate record list
Fingerprint(newData) ==
    CHOOSE newHash \in { HashScan(json, [a |-> 0, i |-> 1], Len(json)).a
                         : json \in {JSONStringify(newData)} } : TRUE

(***************************************************************************)
(* The texts the data source may answer with: the empty text, and a header *)
(* line followed by up to MaxRows different data lines in any order, each  *)
(* line ended by \n.                                                       *)
(***************************************************************************)

MaxRows == 2

\* id,n,la,lo
HeaderLine == <<105,100,44,110,44,108,97,44,108,111>>

SheetLines ==
    << <<49,44,65,44,49,44,50>>,                             \* 1,A,1,2
       <<50,44,66,44,51,44,52>>,                             \* 2,B,3,4
       <<51,44,65,44,51,44,52>>,                             \* 3,A,3,4
       <<53,44,95,95,112,114,111,116,111,95,95,44,49,44,50>> \* 5,__proto__,1,2
    >>

\* the first n of the lines
FirstLines(n) == {SheetLines[i] : i \in 1..n}

DataLines == FirstLines(Len(SheetLines))

\* the sequences of n different lines taken from lines
LineSeqs(lines, n) ==
    {ls \in [1..n -> lines] : \A i, j \in 1..n : ls[i] = ls[j] => i = j}

RECURSIVE JoinLines(_, _)
JoinLines(ls, i) ==
    IF i > Len(ls) THEN <<>> ELSE ls[i] \o <<10>> \o JoinLines(ls, i + 1)

\* the empty text, and the texts of a header and up to n lines from lines
TextsOf(lines, n) ==
    {<<>>} \cup {HeaderLine \o <<10>> \o JoinLines(ls, 1) :
                    ls \in UNION {LineSeqs(lines, m) : m \in 0..n}}

Texts == TextsOf(DataLines, MaxRows)

\* the texts that the data source answers with where only the progress of
\* the polling loop is examined: those made of the first PollLines lines
PollLines == 1
PollTexts == TextsOf(FirstLines(PollLines), MaxRows)

\* the texts that the data source answers with where the comparison of
\* fingerprints is examined: a header and up to CollisionRows of two lines
\* whose records differ and have the same fingerprint (the hash of "Aa" is
\* that of "BB": 65 * 31 + 97 = 66 * 31 + 66)
CollisionRows == 1
CollisionLines ==
    { <<49,44,65,97,44,49,44,50>>,                           \* 1,Aa,1,2
      <<49,44,66,66,44,49,44,50>> }                          \* 1,BB,1,2
CollisionTexts == TextsOf(CollisionLines, CollisionRows)

AllTexts == Texts \cup CollisionTexts

Versions == {1, 2}

\* parseCSVData and the fingerprint of every text of the model, computed once
ParsedTexts == [v \in Versions |-> [t \in AllTexts |-> parseCSVData(t, v)]]

Candidates == {ParsedTexts[v][t] : v \in Versions, t \in AllTexts}

Fingerprints == [d \in Candidates |-> Fingerprint(d)]

(***************************************************************************)
(* The program state                                                       *)
(***************************************************************************)

VARIABLES
    version,                \* the build of the script that is running (1 or 2)
    turismoDatos,           \* the snapshot object: [ref, props, proto]
    lastDataHash,           \* dataManager.lastDataHash: Null or Num(hash)
    isUpdating,             \* dataManager.isUpdating
    status,                 \* what updateStatus last wrote to the status elements
    pueblosMagicosMarkers,  \* the records that have a marker on the map
    inflight,               \* the suspended async calls, in the order they began
    last,                   \* history: how the last cycle of updateData ended
    dropped,                \* history: the last call of updateData that returned
                            \* at the gate since the last cycle began
    call                    \* a call of parseCSVData run on its own: its argument,
                            \* the locals of the scan, and what it has returned

vars == <<version, turismoDatos, lastDataHash, isUpdating, status,
          pueblosMagicosMarkers, inflight, last, dropped, call>>

\* null, and a number n, as values of lastDataHash
Null == <<>>
Num(n) == <<n>>

\* the value of `await this.fetchDataFromGoogleSheets()`: Null when the call
\* threw, the parsed records otherwise
Data(d) == <<d>>

\* Object.prototype as the prototype of an object
ObjectPrototype == [nombre |-> <<>>]

\* `{}`: a fresh object with no own property; ref is its identity, which
\* differs from that of the object it replaces
NewObject(old) ==
    [ref |-> (old.ref + 1) % 2, props |-> [k \in {} |-> 0], proto |-> ObjectPrototype]

\* obj[key] = value on a plain object: the key __proto__ reaches the setter
\* inherited from Object.prototype, which makes value the prototype of obj
\* and creates no own property
SetProperty(obj, key, value) ==
    IF key = <<95,95,112,114,111,116,111,95,95>>
    THEN [obj EXCEPT !.proto = value]
    ELSE [obj EXCEPT !.props = [k \in (DOMAIN obj.props) \cup {key} |->
                                   IF k = key THEN value ELSE obj.props[k]]]

\* a loop that stores each record under its position in the list
RECURSIVE AssignAllByPosition(_, _, _)
AssignAllByPosition(obj, data, i) ==
    IF i > Len(data) THEN obj
    ELSE AssignAllByPosition(SetProperty(obj, <<48 + i>>, data[i]), data, i + 1)

\* data.forEach(pueblo => { obj[pueblo.nombre] = pueblo; })
RECURSIVE AssignAll(_, _, _)
AssignAll(obj, data, i) ==
    IF i > Len(data) THEN obj
    ELSE CHOOSE r \in { AssignAll(o, data, i + 1)
                        : o \in {SetProperty(obj, data[i].nombre, data[i])} } : TRUE

\* Object.keys(obj), Object.values(obj) (as sets)
ObjectKeys(obj) == DOMAIN obj.props
ObjectValues(obj) == {obj.props[k] : k \in DOMAIN obj.props}

\* a gate that lets every call through
GateOpen(updating) == FALSE

\* the condition of `if (this.isUpdating) return;`
Gate(updating) == updating

\* a comparison that finds every candidate changed
HasChangedAlways(newHash, lastHash, manual) == TRUE

\* a comparison that a manual trigger dropped during the cycle also forces
HasChangedOrDropped(newHash, lastHash, manual) ==
    Num(newHash) # lastHash \/ manual \/ dropped = "manual"

\* a comparison that only a manual trigger passes
HasChangedIfManual(newHash, lastHash, manual) == manual

\* the condition `newHash !== this.lastDataHash || manual`
HasChanged(newHash, lastHash, manual) == Num(newHash) # lastHash \/ manual

\* a replacement that a reader sees after the first assignment of the loop
ReplaceSnapshotPartly(old, newData) ==
    AssignAll(NewObject(old),
              IF newData = <<>> THEN <<>> ELSE <<newData[1]>>, 1)

\* `turismoDatos = {}; newData.forEach(...)` of updateData
ReplaceSnapshot(old, newData) == AssignAll(NewObject(old), newData, 1)

\* `data.forEach(...)` of loadTurismoData (build 2): into the current object
MergeSnapshot(old, data) == AssignAll(old, data, 1)

RemoveAt(seq, k) == SubSeq(seq, 1, k - 1) \o SubSeq(seq, k + 1, Len(seq))

\* the record of a cycle that has ended: the status it reported, its
\* trigger, where it failed, how many times it called the publish callback,
\* and the records its fetch returned (Null when the fetch failed); with it
\* the text fetched by the last cycle that passed the comparison of
\* fingerprints, whose records lastDataHash was computed from (Null when
\* there was none, set by the cycle that passes the comparison; the empty
\* text stands for every text that gives no record)
Ended(outcome, manual, cause, published, newData) ==
    [outcome |-> outcome, manual |-> manual, cause |-> cause,
     published |-> published, newData |-> newData,
     accepted |-> last.accepted]

(***************************************************************************)
(* Construction: the globals, the TurismoDataManager and, in build 2, the  *)
(* startup load that initMap issues right after constructing the manager   *)
(***************************************************************************)

InitProgram ==
    /\ version \in Versions
    /\ turismoDatos = [ref |-> 0, props |-> [k \in {} |-> 0], proto |-> ObjectPrototype]
    /\ lastDataHash = Null
    /\ isUpdating = FALSE
    /\ status = "Idle"
    /\ pueblosMagicosMarkers = {}
    /\ inflight = IF version = 2
                  THEN << [op |-> "loadTurismoData", manual |-> FALSE,
                           stage |-> "fetch", start |-> <<>>] >>
                  ELSE <<>>
    /\ last = [outcome |-> "None", manual |-> FALSE, cause |-> "none",
               published |-> 0, newData |-> Null, accepted |-> Null]
    /\ dropped = "none"

\* parseCSVData(csvText) about to run.  field and lines record how csvText
\* was made: <<v>> when it is the field value v in quotes, <<ls>> when it is
\* a header followed by the lines ls, <<>> otherwise
NewCall(csvText, field, lines) ==
    [arg |-> csvText, field |-> field, lines |-> lines, stage |-> "scan",
     st |-> ScanStart, rows |-> <<>>, data |-> <<>>, hash |-> Null]

\* no call is run on its own
NoCall == [NewCall(<<>>, <<>>, <<>>) EXCEPT !.stage = "none"]

Init == InitProgram /\ call = NoCall

\* an updateData that issues its fetch without raising the flag first
UpdateDataFlagLate(manual) ==
    IF Gate(isUpdating)
    THEN /\ dropped' = IF manual THEN "manual" ELSE "timer"
         /\ UNCHANGED <<version, turismoDatos, lastDataHash, isUpdating, status,
                        pueblosMagicosMarkers, inflight, last, call>>
    ELSE /\ status' = IF manual THEN "Updating" ELSE status
         /\ inflight' = Append(inflight,
                [op |-> "updateData", manual |-> manual, stage |-> "fetch",
                 start |-> [turismoDatos |-> turismoDatos,
                            lastDataHash |-> lastDataHash]])
         /\ dropped' = "none"
         /\ UNCHANGED <<version, turismoDatos, lastDataHash, isUpdating,
                        pueblosMagicosMarkers, last, call>>

(***************************************************************************)
(* updateData(manual), up to its first await                               *)
(***************************************************************************)

UpdateData(manual) ==
    IF Gate(isUpdating)
    THEN /\ dropped' = IF manual THEN "manual" ELSE "timer"
         /\ UNCHANGED <<version, turismoDatos, lastDataHash, isUpdating, status,
                        pueblosMagicosMarkers, inflight, last, call>>
    ELSE /\ isUpdating' = TRUE
         /\ status' = IF manual THEN "Updating" ELSE status
         /\ inflight' = Append(inflight,
                [op |-> "updateData", manual |-> manual, stage |-> "fetch",
                 start |-> [turismoDatos |-> turismoDatos,
                            lastDataHash |-> lastDataHash]])
         /\ dropped' = "none"
         /\ UNCHANGED <<version, turismoDatos, lastDataHash,
                        pueblosMagicosMarkers, last, call>>

\* a timer that no longer calls updateData
TimerCleared == FALSE

\* the setInterval callback
TimerTick == UpdateData(FALSE)

\* the click listener of the manual-update button
ManualClick == UpdateData(TRUE)

(***************************************************************************)
(* updatePueblosMagicosMarkers: the markers are rebuilt from the snapshot. *)
(* Its calls into the map library may raise; the marker list is then left  *)
(* cleared.  The value is the new marker list.                             *)
(***************************************************************************)

updatePueblosMagicosMarkers(snapshot, raises) ==
    IF raises THEN {} ELSE ObjectValues(snapshot)

(***************************************************************************)
(* The continuation of updateData after `await fetchDataFromGoogleSheets`  *)
(***************************************************************************)

\* a catch block that returns without reaching `this.isUpdating = false`
CycleFailsHoldingFlag(k, cause) ==
    /\ status' = "Error"
    /\ inflight' = RemoveAt(inflight, k)
    /\ last' = Ended("Error", inflight[k].manual, cause, 0, Null)
    /\ UNCHANGED <<version, turismoDatos, lastDataHash, isUpdating,
                   pueblosMagicosMarkers, dropped, call>>

\* the catch block and the statement after it
CycleFails(k, cause) ==
    /\ status' = "Error"
    /\ isUpdating' = FALSE
    /\ inflight' = RemoveAt(inflight, k)
    /\ last' = Ended("Error", inflight[k].manual, cause, 0, Null)
    /\ UNCHANGED <<version, turismoDatos, lastDataHash, pueblosMagicosMarkers,
                   dropped, call>>

\* the try block from the hash on, and the statement after the catch
CycleSucceeds(k, csvText) ==
    \E manual \in {inflight[k].manual},
       newData \in {ParsedTexts[version][csvText]} :
    \E newHash \in {Fingerprints[newData]} :
        /\ IF HasChanged(newHash, lastDataHash, manual)
           THEN \E raises \in BOOLEAN :
                  /\ turismoDatos' = ReplaceSnapshot(turismoDatos, newData)
                  /\ lastDataHash' = Num(newHash)
                  /\ pueblosMagicosMarkers' =
                        updatePueblosMagicosMarkers(turismoDatos', raises)
                  /\ status' = IF raises THEN "Error" ELSE "Updated"
                  /\ last' = [Ended(IF raises THEN "Error" ELSE "Updated", manual,
                                    IF raises THEN "publish" ELSE "none", 1,
                                    Data(newData))
                                EXCEPT !.accepted =
                                    Data(IF newData = <<>> THEN <<>> ELSE csvText)]
           ELSE /\ status' = "Unchanged"
                /\ last' = Ended("Unchanged", manual, "none", 0, Data(newData))
                /\ UNCHANGED <<turismoDatos, lastDataHash, pueblosMagicosMarkers>>
        /\ isUpdating' = FALSE
        /\ inflight' = RemoveAt(inflight, k)
        /\ UNCHANGED <<version, dropped, call>>

(***************************************************************************)
(* The continuation of loadTurismoData (build 2) after its await           *)
(***************************************************************************)

LoadFails(k) ==
    /\ inflight' = RemoveAt(inflight, k)
    /\ UNCHANGED <<version, turismoDatos, lastDataHash, isUpdating, status,
                   pueblosMagicosMarkers, last, dropped, call>>

LoadSucceeds(k, csvText) ==
    /\ turismoDatos' = MergeSnapshot(turismoDatos, ParsedTexts[version][csvText])
    /\ \E raises \in BOOLEAN :
          pueblosMagicosMarkers' = updatePueblosMagicosMarkers(turismoDatos', raises)
    /\ inflight' = RemoveAt(inflight, k)
    /\ UNCHANGED <<version, lastDataHash, isUpdating, status, last, dropped,
                   call>>

(***************************************************************************)
(* fetchDataFromGoogleSheets: `await fetch(url)` and `await response.text()`*)
(***************************************************************************)

\* fetch resolves with response.ok: the call goes on to await the body
FetchResponds(k) ==
    /\ inflight[k].stage = "fetch"
    /\ inflight' = [inflight EXCEPT ![k].stage = "text"]
    /\ UNCHANGED <<version, turismoDatos, lastDataHash, isUpdating, status,
                   pueblosMagicosMarkers, last, dropped, call>>

\* fetch rejects (network error) or resolves with a non-success status:
\* the error is rethrown to the caller
FetchFails(k) ==
    /\ inflight[k].stage = "fetch"
    /\ IF inflight[k].op = "updateData" THEN CycleFails(k, "fetch") ELSE LoadFails(k)

\* response.text() rejects
TextFails(k) ==
    /\ inflight[k].stage = "text"
    /\ IF inflight[k].op = "updateData" THEN CycleFails(k, "text") ELSE LoadFails(k)

\* response.text() resolves with csvText, which parseCSVData turns into the
\* value of the call
TextArrives(k, csvText) ==
    /\ inflight[k].stage = "text"
    /\ IF inflight[k].op = "updateData"
       THEN CycleSucceeds(k, csvText)
       ELSE LoadSucceeds(k, csvText)

\* the steps of the program when the data source answers with one of texts
NextOver(texts) ==
    \/ TimerTick
    \/ ManualClick
    \/ \E k \in 1..Len(inflight) : FetchResponds(k)
    \/ \E k \in 1..Len(inflight) : FetchFails(k)
    \/ \E k \in 1..Len(inflight) : TextFails(k)
    \/ \E k \in 1..Len(inflight), csvText \in texts : TextArrives(k, csvText)

Next == NextOver(Texts)

Spec == Init /\ [][Next]_vars

\* the program when the data source answers with one of the colliding texts
CollisionSpec == Init /\ [][NextOver(CollisionTexts)]_vars

\* a suspended call is resumed: its fetch resolves or rejects, or the reading
\* of the body does
Settle(texts) ==
    \E k \in 1..Len(inflight) :
        \/ FetchResponds(k)
        \/ FetchFails(k)
        \/ TextFails(k)
        \/ \E csvText \in texts : TextArrives(k, csvText)

\* the interval set by startAutoUpdate is never cleared, so the timer keeps
\* ticking; every fetch is assumed to settle
FairSpec ==
    /\ Init
    /\ [][NextOver(PollTexts)]_vars
    /\ WF_vars(TimerTick)
    /\ WF_vars(Settle(PollTexts))

(***************************************************************************)
(* parseCSVData run on its own, one iteration of the scan at a time, on    *)
(* texts drawn from: every string of up to MaxLen characters of Alphabet,  *)
(* every such string written as a quoted field, a header followed by up to *)
(* MaxDataRows of RowLines, and the example texts.                         *)
(***************************************************************************)

MaxLen == 4

\* a letter, a space, a comma, \n, \r and the quote character
Alphabet == {97, 32, 44, 10, 13, 34}

Strings(n) == UNION {[1..m -> Alphabet] : m \in 0..n}

\* a field value as a spreadsheet exports it when it needs quoting: every
\* quote doubled, the whole in quotes
RECURSIVE DoubleQuotes(_)
DoubleQuotes(v) ==
    IF v = <<>> THEN <<>>
    ELSE (IF Head(v) = 34 THEN <<34, 34>> ELSE <<Head(v)>>) \o DoubleQuotes(Tail(v))

QuoteField(v) == <<34>> \o DoubleQuotes(v) \o <<34>>

MaxDataRows == 2

\* lines of a sheet, accepted and not:
\*   1,A,1,2
\*   2,B,3.5,-4,s,d,r,l,t
\*   3,C,1,2,, ,r
\*   4,T,,2
\*   5,A,x,2
\*   6,A,Infinity,2
\*   7, ,1,2
\*   8,A
RowLines ==
    {
       <<49,44,65,44,49,44,50>>,
       <<50,44,66,44,51,46,53,44,45,52,44,115,44,100,44,114,44,108,44,116>>,
       <<51,44,67,44,49,44,50,44,44,32,44,114>>,
       <<52,44,84,44,44,50>>,
       <<53,44,65,44,120,44,50>>,
       <<54,44,65,44,73,110,102,105,110,105,116,121,44,50>>,
       <<55,44,32,44,49,44,50>>,
       <<56,44,65>>
    }

RowLineLists == UNION {[1..m -> RowLines] : m \in 0..MaxDataRows}

\* the header and the lines ls, each ended by \n
SheetText(ls) == HeaderLine \o <<10>> \o JoinLines(ls, 1)

\* Name,Lat,Lon\nAjijic,20.3,-103.25\n
ExampleText == <<78,97,109,101,44,76,97,116,44,76,111,110,10,65,106,105,106,105,99,44,50,48,46,51,44,45,49,48,51,46,50,53,10>>

\* Id,Name,Lat,Lon\n1,Ajijic,20.3,-103.25\n
ExampleSheetText == <<73,100,44,78,97,109,101,44,76,97,116,44,76,111,110,10,49,44,65,106,105,106,105,99,44,50,48,46,51,44,45,49,48,51,46,50,53,10>>

\* the calls examined: every short text, every short field value in quotes,
\* the sheets of the header and some lines, and the same lines without the
\* header, whose first line then stands as the header
Calls ==
    {NewCall(t, <<>>, <<>>) : t \in Strings(MaxLen) \cup {ExampleText, ExampleSheetText}}
    \cup {NewCall(QuoteField(v), <<v>>, <<>>) : v \in Strings(MaxLen)}
    \cup {NewCall(SheetText(ls), <<>>, <<ls>>) : ls \in RowLineLists}
    \cup {NewCall(JoinLines(ls, 1), <<>>, <<Tail(ls)>>) : ls \in RowLineLists \ {<<>>}}

program == <<version, turismoDatos, lastDataHash, isUpdating, status,
             pueblosMagicosMarkers, inflight, last, dropped>>

\* one iteration of the for loop of parseCSVText
ScanIteration ==
    /\ call.stage = "scan"
    /\ call.st.i <= Len(call.arg)
    /\ call' = [call EXCEPT !.st = ScanStep(call.arg, call.st, version)]
    /\ UNCHANGED program

\* the loop exits; parseCSVText flushes what is pending and returns rows
ScanEnds ==
    /\ call.stage = "scan"
    /\ call.st.i > Len(call.arg)
    /\ call' = [call EXCEPT !.stage = "rows", !.rows = ScanReturn(call.st, version)]
    /\ UNCHANGED program

\* a normalization that reads the first row as data too
NormalizeFromFirstRow ==
    /\ call.stage = "rows"
    /\ call' = [call EXCEPT !.stage = "data", !.data = DataRows(call.rows, 1)]
    /\ UNCHANGED program

\* parseCSVData turns the rows into records and returns them
Normalize ==
    /\ call.stage = "rows"
    /\ call' = [call EXCEPT !.stage = "data",
                            !.data = IF Len(call.rows) < 2 THEN <<>>
                                     ELSE DataRows(call.rows, 2)]
    /\ UNCHANGED program

\* a fingerprint step that also stores its result as lastDataHash
HashDataAndStore ==
    /\ call.stage = "data"
    /\ call' = [call EXCEPT !.stage = "hash", !.hash = Num(Fingerprint(call.data))]
    /\ lastDataHash' = call'.hash
    /\ UNCHANGED <<version, turismoDatos, isUpdating, status,
                   pueblosMagicosMarkers, inflight, last, dropped>>

\* the caller computes the fingerprint of the records returned
HashData ==
    /\ call.stage = "data"
    /\ call' = [call EXCEPT !.stage = "hash", !.hash = Num(Fingerprint(call.data))]
    /\ UNCHANGED program

ParseNext == ScanIteration \/ ScanEnds \/ Normalize \/ HashData

ParseInit == InitProgram /\ call \in Calls

ParseSpec == ParseInit /\ [][ParseNext]_vars

(***************************************************************************)
(* Properties                                                              *)
(***************************************************************************)

\* the step in which the continuation of updateData runs to its end
CycleEnds == isUpdating /\ ~isUpdating'

\* the fingerprint that the last ended cycle computed (Null: its fetch failed)
LastFingerprint ==
    IF last.newData = Null THEN Null ELSE Num(Fingerprints[last.newData[1]])

\* the names in a list of records, and the last record of the list with a name
Names(data) == {data[i].nombre : i \in 1..Len(data)}
LastWithName(data, name) ==
    data[CHOOSE i \in 1..Len(data) :
            /\ data[i].nombre = name
            /\ \A j \in (i + 1)..Len(data) : data[j].nombre # name]

\* C1: a call of updateData (from the timer or from the manual trigger) made
\* while isUpdating is true issues no fetch and leaves the snapshot,
\* lastDataHash, isUpdating and the reported status as they were
C1_GatedCallIsNoOp ==
    [][\A manual \in BOOLEAN :
          (isUpdating /\ UpdateData(manual)) =>
              UNCHANGED <<turismoDatos, lastDataHash, isUpdating, status, inflight,
                          pueblosMagicosMarkers>>]_vars

\* a call was dropped at the gate while a cycle is in flight, and only that
\* cycle's fetch is outstanding for it
C1_Witness ==
    /\ isUpdating
    /\ dropped # "none"
    /\ Cardinality({k \in 1..Len(inflight) : inflight[k].op = "updateData"}) = 1

\* C2: at any time at most one fetch of the data source is outstanding,
\* whatever the interleaving of timer ticks, manual triggers, the startup
\* load and fetch completions
C2_OneFetchOutstanding == Len(inflight) <= 1

\* C3: isUpdating is true only while a cycle is suspended at an await of its
\* fetch: every cycle that set it has cleared it when it ends, on the Updated,
\* Unchanged and Error outcomes and on every exception path
C3_FlagReleased ==
    isUpdating <=> \E k \in 1..Len(inflight) : inflight[k].op = "updateData"

\* a cycle ended on an exception raised after its fetch had succeeded, and
\* the flag is clear
C3_Witness ==
    /\ last.outcome = "Error"
    /\ last.cause = "publish"
    /\ ~isUpdating

\* C4: when the fetch of a cycle fails, the snapshot and lastDataHash after
\* the cycle are those from before the cycle, Error is reported and the
\* publish callback is not called
C4_FetchFailureKeepsState ==
    [][\A k \in 1..Len(inflight) :
          (inflight[k].op = "updateData" /\ FetchFails(k)) =>
              /\ turismoDatos' = inflight[k].start.turismoDatos
              /\ lastDataHash' = inflight[k].start.lastDataHash
              /\ status' = "Error"
              /\ last'.published = 0
              /\ pueblosMagicosMarkers' = pueblosMagicosMarkers]_vars

\* C5: the snapshot changes only in the step that ends a cycle of updateData,
\* and then by being replaced with a fresh object; no other operation adds,
\* removes or alters its entries
C5_OnlyCyclesReplaceSnapshot ==
    [][turismoDatos' # turismoDatos =>
          /\ CycleEnds
          /\ turismoDatos'.ref # turismoDatos.ref]_vars

\* C6: a cycle whose fetch succeeds ends Updated if and only if its
\* fingerprint differs from lastDataHash or its trigger was manual, and ends
\* Unchanged otherwise; a manual cycle whose fetch succeeds always publishes
C6_UpdatedIffChangedOrManual ==
    [][(CycleEnds /\ last'.newData # Null) =>
          /\ (last'.outcome = "Updated") <=>
                (LastFingerprint' # lastDataHash \/ last'.manual)
          /\ last'.outcome # "Updated" => last'.outcome = "Unchanged"
          /\ last'.manual => last'.published = 1]_vars

\* C7: a non-manual cycle whose fingerprint equals lastDataHash reports
\* Unchanged, does not call the publish callback and leaves the snapshot (the
\* same object with the same entries) and lastDataHash untouched; so a
\* non-manual cycle that fetches the text of the successful cycle before it
\* ends Unchanged
C7_EqualFingerprintIsUnchanged ==
    [][(CycleEnds /\ last'.newData # Null /\ ~last'.manual) =>
          /\ LastFingerprint' = lastDataHash =>
                /\ last'.outcome = "Unchanged"
                /\ status' = "Unchanged"
                /\ last'.published = 0
                /\ UNCHANGED <<turismoDatos, lastDataHash, pueblosMagicosMarkers>>
          /\ (last.newData # Null /\ last'.newData = last.newData) =>
                last'.outcome = "Unchanged"]_vars

\* two cycles in a row fetched the same records, the second one was started
\* by the timer and ended Unchanged on a snapshot that has entries
C7_Witness ==
    /\ ~isUpdating
    /\ last.outcome = "Unchanged"
    /\ ~last.manual
    /\ LastFingerprint = lastDataHash
    /\ ObjectKeys(turismoDatos) # {}

\* C8: when a cycle ends Updated the snapshot is the mapping name -> record
\* of its candidate records: one key per name, for a repeated name the record
\* of the last row with it, nothing left from the previous snapshot, and
\* lastDataHash is the candidate's fingerprint
C8_SnapshotIsCandidateMapping ==
    [][(CycleEnds /\ last'.outcome = "Updated") =>
          /\ ObjectKeys(turismoDatos') = Names(last'.newData[1])
          /\ \A name \in Names(last'.newData[1]) :
                turismoDatos'.props[name] = LastWithName(last'.newData[1], name)
          /\ lastDataHash' = LastFingerprint']_vars

\* C9: the publish callback is called exactly once in a cycle that ends
\* Updated and not at all in a cycle that ends Unchanged or Error
C9_PublishedIffUpdated ==
    last.published = (IF last.outcome = "Updated" THEN 1 ELSE 0)

\* C10: the polling loop heals itself: whenever no cycle is in flight (after
\* an Error as after any other outcome) a new cycle is eventually started,
\* and every cycle in flight eventually ends
C10_PollingSelfHeals ==
    /\ ~isUpdating ~> isUpdating
    /\ isUpdating ~> ~isUpdating

\* a new cycle is in flight after a cycle that ended in Error
C10_Witness ==
    /\ last.outcome = "Error"
    /\ isUpdating

\* C11: isUpdating is true whenever a fetch issued by updateData is
\* outstanding; only the step that completes that cycle clears it; and while
\* the fetch is outstanding every timer tick and manual trigger is dropped
C11_FlagHeldWhileFetching ==
    [][/\ (\E k \in 1..Len(inflight') : inflight'[k].op = "updateData")
             => isUpdating'
       /\ (isUpdating /\ ~isUpdating') =>
             \E k \in 1..Len(inflight) :
                 /\ inflight[k].op = "updateData"
                 /\ inflight' = RemoveAt(inflight, k)
       /\ \A manual \in BOOLEAN :
             ((\E k \in 1..Len(inflight) : inflight[k].op = "updateData")
                 /\ UpdateData(manual)) =>
                   /\ inflight' = inflight
                   /\ isUpdating']_vars

\* a manual trigger has been dropped while the fetch of a later cycle hangs
C11_Witness ==
    /\ isUpdating
    /\ \E k \in 1..Len(inflight) :
          inflight[k].op = "updateData" /\ inflight[k].stage = "fetch"
    /\ dropped = "manual"
    /\ last.outcome = "Updated"

\* the values that updateStatus reports at the end of a cycle
Terminal == {"Updated", "Unchanged", "Error"}

\* C12: the status moves only along Idle -> Updating -> {Updated,
\* Unchanged, Error} -> Idle: every cycle that passes the gate puts it in
\* Updating before its fetch and ends in one of the three outcomes
C12_StatusStateMachine ==
    [][/\ (~isUpdating /\ isUpdating') => status' = "Updating"
       /\ CycleEnds => status' \in Terminal
       /\ status' # status =>
             \/ status = "Idle" /\ status' = "Updating"
             \/ status = "Updating" /\ status' \in Terminal
             \/ status \in Terminal /\ status' = "Idle"]_vars

\* C13: a reader of the snapshot runs only between the steps of a cycle or
\* of the startup load, so whenever the snapshot differs from what it was a
\* step earlier it is the complete mapping of the records just fetched (a
\* fresh object with every record assigned for a cycle, the old object with
\* every record assigned for the load), and the publish callback called in
\* that step reads that complete mapping
C13_ReadersSeeWholeSnapshots ==
    [][/\ turismoDatos' # turismoDatos =>
             IF CycleEnds
             THEN /\ last'.newData # Null
                  /\ turismoDatos' =
                        AssignAll(NewObject(turismoDatos), last'.newData[1], 1)
             ELSE \E t \in Texts :
                     turismoDatos' =
                        AssignAll(turismoDatos, ParsedTexts[version][t], 1)
       /\ pueblosMagicosMarkers' # pueblosMagicosMarkers =>
             pueblosMagicosMarkers' \in {{}, ObjectValues(turismoDatos')}]_vars

\* a cycle has replaced the snapshot with two records and published them
C13_Witness ==
    /\ last.outcome = "Updated"
    /\ Len(last.newData[1]) = 2
    /\ Cardinality(ObjectKeys(turismoDatos)) = 2
    /\ pueblosMagicosMarkers = ObjectValues(turismoDatos)

\* the call has returned from parseCSVText
Parsed == call.stage \in {"rows", "data"}

\* the value has a character that trim() keeps
HasVisible(v) == \E i \in 1..Len(v) : ~IsWhiteSpace(v[i])

\* C14 as stated: for every field value over ordinary characters, commas,
\* line breaks and quotes, parsing the value wrapped in quotes with its
\* quotes doubled yields one row whose one field is the value
C14_QuotedFieldRoundTrips ==
    (Parsed /\ call.field # <<>>) => call.rows = << <<call.field[1]>> >>

\* C14 amended: the same for every field value that has at least one
\* character other than white space
C14_VisibleQuotedFieldRoundTrips ==
    (Parsed /\ call.field # <<>> /\ HasVisible(call.field[1]))
        => call.rows = << <<call.field[1]>> >>

\* a value holding a comma, a line break and a quote has come back whole
C14_Witness ==
    /\ Parsed
    /\ call.field # <<>>
    /\ {44, 10, 34} \subseteq {call.field[1][i] : i \in 1..Len(call.field[1])}
    /\ call.rows = << <<call.field[1]>> >>

\* the text is one line without quotes followed by nothing but blank lines
HeaderThenBlankLines(t) ==
    \E n \in 0..Len(t) :
        /\ \A i \in 1..n : t[i] \notin {10, 13, 34}
        /\ \A i \in (n + 1)..Len(t) : IsWhiteSpace(t[i])

\* C15: the rows parseCSVText returns never include a row all of whose
\* fields are empty or white space only, and a header followed by blank
\* lines gives no record
C15_NoBlankRows ==
    /\ Parsed =>
          \A r \in 1..Len(call.rows) :
              \E k \in 1..Len(call.rows[r]) : HasVisible(call.rows[r][k])
    /\ (call.stage = "data" /\ HeaderThenBlankLines(call.arg)) =>
          (Len(call.rows) <= 1 /\ call.data = <<>>)

\* the positions of the quote characters of a text
QuotesOf(t) == {q \in 1..Len(t) : t[q] = 34}

\* C16: parseCSVText terminates and never raises: every iteration moves the
\* scan index forward and never past the end of the text by more than one,
\* and the rows it returns are those of the whole loop.  When the text ends
\* inside a quote, the pending field holds all the text after the opening
\* quote, commas and line breaks included, and the pending row is flushed
\* under the blank-row rule
C16_ScanTerminatesAndFlushes ==
    [][/\ ScanIteration =>
             /\ call'.st.i > call.st.i
             /\ call'.st.i <= Len(call.arg) + 1
       /\ ScanEnds =>
             /\ call'.rows = parseCSVText(call.arg, version)
             /\ call.st.inQuotes =>
                   LET pending == Append(call.st.currentRow, call.st.currentField)
                   IN  /\ \A q \in QuotesOf(call.arg) :
                             QuotesOf(call.arg) = {q} =>
                               \E n \in 0..Len(call.st.currentField) :
                                  SubSeq(call.st.currentField, n + 1,
                                         Len(call.st.currentField))
                                    = SubSeq(call.arg, q + 1, Len(call.arg))
                       /\ call'.rows =
                             IF pending # << <<>> >> /\ RowHasContent(pending, version)
                             THEN Append(call.st.rows, pending)
                             ELSE call.st.rows]_vars

\* a text that ends inside a quote has been parsed: the field after the
\* quote, with its comma and line break, is the one row
C16_Witness ==
    /\ call.stage = "rows"
    /\ call.st.inQuotes
    /\ Cardinality(QuotesOf(call.arg)) = 1
    /\ {44, 10} \subseteq {call.st.currentField[i] : i \in 1..Len(call.st.currentField)}
    /\ call.rows = << <<call.st.currentField>> >>

\* C17: every record parseCSVData returns has a non-empty name and a
\* finite latitude and longitude; a row whose name or coordinate is empty
\* after trimming, or whose coordinate parses to NaN or to an infinity,
\* contributes no record
C17_RecordsHaveNameAndFiniteCoordinates ==
    call.stage = "data" =>
        \A r \in 1..Len(call.data) :
            /\ call.data[r].nombre # <<>>
            /\ call.data[r].latitud.kind = "num"
            /\ call.data[r].longitud.kind = "num"

\* the records of each line of ls normalized on its own, in order
RECURSIVE PerLineRecords(_, _, _)
PerLineRecords(ls, i, v) ==
    IF i > Len(ls) THEN <<>>
    ELSE parseCSVData(SheetText(<<ls[i]>>), v) \o PerLineRecords(ls, i + 1, v)

\* C18: rows are normalized independently and in order: the records of a
\* sheet are the in-order concatenation of the records each of its rows
\* gives on its own, so an invalid row, which gives none, changes nothing
\* about the records of the other rows
C18_RecordsArePerRowConcatenation ==
    (call.stage = "data" /\ call.lines # <<>>) =>
        call.data = PerLineRecords(call.lines[1], 1, version)

\* a sheet of a valid row after an invalid one has given the valid row's
\* record alone
C18_Witness ==
    /\ call.stage = "data"
    /\ call.lines # <<>>
    /\ Len(call.lines[1]) = 2
    /\ parseCSVData(SheetText(<<call.lines[1][1]>>), version) = <<>>
    /\ Len(call.data) = 1

\* the texts an optional field takes when its cell is missing or empty
Defaults ==
    [seguridad    |-> <<73,110,102,111,114,109,97,99,105,243,110,32,110,111,32,
                        100,105,115,112,111,110,105,98,108,101>>,
     securityTips |-> <<73,110,102,111,114,109,97,116,105,111,110,32,110,111,116,32,
                        97,118,97,105,108,97,98,108,101>>,
     distancia    |-> <<78,47,65>>,
     ruta         |-> <<35>>,
     linkTurismo  |-> <<35>>]

\* C19: no record has an empty optional field, and in the record of an
\* accepted row an optional field whose cell is missing (the row is short)
\* or empty after trimming has its default: 'N/A' for distancia, '#' for
\* ruta and linkTurismo, the two advisory texts for seguridad and
\* securityTips; otherwise it has the trimmed cell
C19_OptionalFieldsDefault ==
    call.stage = "data" =>
        /\ \A r \in 1..Len(call.data) : \A f \in DOMAIN Defaults :
              call.data[r][f] # <<>>
        /\ (Len(call.rows) = 2 /\ Len(call.data) = 1) =>
              \A f \in DOMAIN Defaults :
                 LET row == call.rows[2]
                     cell == IF ColumnIndex[f] < Len(row)
                             THEN trim(row[ColumnIndex[f] + 1]) ELSE <<>>
                 IN  call.data[1][f] = IF cell = <<>> THEN Defaults[f] ELSE cell

\* a row with an empty cell, a blank cell, a filled cell and two missing
\* cells has been accepted
C19_Witness ==
    /\ call.stage = "data"
    /\ Len(call.rows) = 2
    /\ Len(call.rows[2]) = 7
    /\ Len(call.data) = 1
    /\ call.data[1].seguridad = Defaults.seguridad
    /\ call.data[1].distancia = <<78,47,65>>
    /\ call.data[1].ruta = <<114>>
    /\ call.data[1].linkTurismo = <<35>>

\* the record the example describes: Ajijic at 20.3, -103.25, with every
\* optional field at its default
AjijicRecord ==
    [nombre       |-> <<65,106,105,106,105,99>>,
     latitud      |-> [kind |-> "num", neg |-> FALSE, digits |-> <<2,0,3>>, n |-> 2],
     longitud     |-> [kind |-> "num", neg |-> TRUE, digits |-> <<1,0,3,2,5>>, n |-> 3],
     seguridad    |-> Defaults.seguridad,
     securityTips |-> Defaults.securityTips,
     distancia    |-> <<78,47,65>>,
     ruta         |-> <<35>>,
     linkTurismo  |-> <<35>>]

\* C20 as stated: the text "Name,Lat,Lon\nAjijic,20.3,-103.25\n" normalizes
\* to exactly one record: Ajijic, 20.3, -103.25, 'N/A', '#', '#'
C20_ExampleGivesAjijic ==
    (call.stage = "data" /\ call.arg = ExampleText) => call.data = <<AjijicRecord>>

\* C20 amended: with the name, latitude and longitude in the second, third
\* and fourth column, where parseCSVData reads them, the text
\* "Id,Name,Lat,Lon\n1,Ajijic,20.3,-103.25\n" normalizes to exactly that
\* record, and the text of the example as stated normalizes to no record
C20_ExampleSheetGivesAjijic ==
    /\ (call.stage = "data" /\ call.arg = ExampleSheetText)
          => call.data = <<AjijicRecord>>
    /\ (call.stage = "data" /\ call.arg = ExampleText) => call.data = <<>>

\* the example sheet has been normalized to one record
C20_Witness ==
    /\ call.stage = "data"
    /\ call.arg = ExampleSheetText
    /\ Len(call.data) = 1

\* C21: a trigger dropped at the gate is not remembered: a cycle starts only
\* in a step of the timer or of the manual trigger, the step that ends a
\* cycle starts none, and a periodic cycle during which a manual trigger was
\* dropped still ends Unchanged, without publishing, when its fingerprint
\* equals lastDataHash
C21_DroppedTriggersForgotten ==
    [][/\ (~isUpdating /\ isUpdating') => \E manual \in BOOLEAN : UpdateData(manual)
       /\ CycleEnds =>
             \A k \in 1..Len(inflight') : inflight'[k].op # "updateData"
       /\ (CycleEnds /\ dropped = "manual" /\ ~last'.manual
              /\ last'.newData # Null /\ LastFingerprint' = lastDataHash) =>
             /\ last'.outcome = "Unchanged"
             /\ last'.published = 0
             /\ UNCHANGED <<turismoDatos, lastDataHash>>]_vars

\* a periodic cycle during which a manual trigger was dropped has ended
\* Unchanged, and no cycle is in flight
C21_Witness ==
    /\ ~isUpdating
    /\ dropped = "manual"
    /\ last.outcome = "Unchanged"
    /\ ~last.manual
    /\ \A k \in 1..Len(inflight) : inflight[k].op # "updateData"

\* the lines of a text from position i on, cur being the line begun: a line
\* ends at each \n, each \r and each \r\n pair
RECURSIVE RefLines(_, _, _)
RefLines(t, i, cur) ==
    IF i > Len(t) THEN <<cur>>
    ELSE IF t[i] = 13 /\ i < Len(t) /\ t[i + 1] = 10
         THEN <<cur>> \o RefLines(t, i + 2, <<>>)
    ELSE IF t[i] \in {10, 13} THEN <<cur>> \o RefLines(t, i + 1, <<>>)
    ELSE RefLines(t, i + 1, Append(cur, t[i]))

\* the fields of a line from position i on: a field ends at each comma
RECURSIVE RefFields(_, _, _)
RefFields(line, i, cur) ==
    IF i > Len(line) THEN <<cur>>
    ELSE IF line[i] = 44 THEN <<cur>> \o RefFields(line, i + 1, <<>>)
    ELSE RefFields(line, i + 1, Append(cur, line[i]))

\* the row has a field that is not empty or white space only
RefRowKept(row) == \E k \in 1..Len(row) : HasVisible(row[k])

\* the reference parse of a text without quotes
RefRows(t) ==
    LET lines == RefLines(t, 1, <<>>)
    IN  SelectSeq([n \in 1..Len(lines) |-> RefFields(lines[n], 1, <<>>)], RefRowKept)

\* C22: for every text without a quote character parseCSVText returns the
\* reference parse: the lines of the text, each split into fields at its
\* commas, without the lines whose fields are all empty or white space
\* only, in the order of the text
C22_UnquotedTextParsesAsReference ==
    (Parsed /\ QuotesOf(call.arg) = {}) => call.rows = RefRows(call.arg)

\* C23: the first row is the header: a text of fewer than two rows gives
\* no record, the first row gives none, and the records of the rows after
\* it are those the same rows give under another first row (here the header
\* id,n,la,lo), whatever the first row holds
C23_HeaderIsIgnored ==
    call.stage = "data" =>
        /\ Len(call.rows) < 2 => call.data = <<>>
        /\ call.lines # <<>> =>
              /\ Len(call.data) <= Len(call.lines[1])
              /\ call.data = parseCSVData(SheetText(call.lines[1]), version)

\* a text whose first row would be accepted as a data row has given the
\* record of its second row alone
C23_Witness ==
    /\ call.stage = "data"
    /\ call.lines # <<>>
    /\ call.arg # SheetText(call.lines[1])
    /\ Len(call.rows) = 2
    /\ RowRecords(call.rows[1]) # <<>>
    /\ Len(call.data) = 1

Accepted ==
    IF last.accepted = Null THEN Null
    ELSE Data(ParsedTexts[version][last.accepted[1]])

\* C25: change detection can miss an update but gives no false one.  The
\* last accepted cycle is the last one that passed the comparison, the one
\* lastDataHash was computed from.  A periodic cycle whose records are those
\* of the last accepted cycle does not publish and leaves the snapshot and
\* lastDataHash alone; a periodic cycle whose records differ from them is
\* skipped only when the two fingerprints are equal
C25_MissedNeverFalseUpdate ==
    [][(CycleEnds /\ last'.newData # Null /\ ~last'.manual) =>
          /\ last'.newData = Accepted =>
                /\ last'.published = 0
                /\ UNCHANGED <<turismoDatos, lastDataHash, pueblosMagicosMarkers>>
          /\ (last'.newData # Accepted /\ last'.published = 0) =>
                /\ Accepted # Null
                /\ Fingerprints[last'.newData[1]] = Fingerprints[Accepted[1]]]_vars

\* an update has been missed: a periodic cycle fetched records that differ
\* from the accepted ones and ended Unchanged
C25_Witness ==
    /\ ~isUpdating
    /\ last.outcome = "Unchanged"
    /\ ~last.manual
    /\ Accepted # Null
    /\ last.newData # Accepted
    /\ Names(last.newData[1]) # Names(Accepted[1])

\* C26: the snapshot and lastDataHash change only in the step that ends a
\* cycle reporting Updated; a cycle that reports Error, whether its fetch
\* failed or the publish callback raised after the fetch, leaves both as
\* they were before the cycle
C26_StateChangesOnlyWhenUpdated ==
    [][/\ (turismoDatos' # turismoDatos \/ lastDataHash' # lastDataHash) =>
             (CycleEnds /\ last'.outcome = "Updated")
       /\ \A k \in 1..Len(inflight) :
             (inflight[k].op = "updateData" /\ CycleEnds /\ last'.outcome = "Error") =>
                 /\ turismoDatos' = inflight[k].start.turismoDatos
                 /\ lastDataHash' = inflight[k].start.lastDataHash]_vars

\* C27: responses are applied to the snapshot in the order their fetches
\* were issued.  The startup load is issued before every cycle, so it does
\* not write to the snapshot once a cycle's response has been applied; and
\* when no fetch is outstanding the records of the snapshot are all records
\* of the last accepted cycle, none comes from older data only
C27_ResponsesAppliedInIssueOrder ==
    [][/\ (turismoDatos' # turismoDatos /\ ~CycleEnds) => Accepted = Null
       /\ (inflight' = <<>> /\ Accepted' # Null) =>
             ObjectValues(turismoDatos') \subseteq
                {Accepted'[1][i] : i \in 1..Len(Accepted'[1])}]_vars

\* C28: whenever no cycle is in flight and lastDataHash is not null,
\* lastDataHash is the fingerprint of the records of the last accepted cycle
\* and the content of the snapshot is the mapping built from those records:
\* the two were set together by that cycle and by nothing since
C28_HashMatchesSnapshot ==
    (~isUpdating /\ lastDataHash # Null) =>
        /\ Accepted # Null
        /\ lastDataHash = Num(Fingerprints[Accepted[1]])
        /\ \E built \in {AssignAll(NewObject(turismoDatos), Accepted[1], 1)} :
              /\ turismoDatos.props = built.props
              /\ turismoDatos.proto = built.proto

\* C29: lastDataHash is null until a cycle's fetch has succeeded, and a
\* fingerprint is never null: the first cycle whose fetch succeeds ends
\* Updated and publishes, whatever it fetched; lastDataHash stops being null
\* only in a cycle that ends Updated, and a cycle ends Unchanged only when
\* lastDataHash is not null, that is after a cycle has ended Updated
C29_FirstSuccessIsUpdated ==
    [][/\ (CycleEnds /\ lastDataHash = Null /\ last'.newData # Null) =>
             /\ last'.outcome = "Updated"
             /\ last'.published = 1
       /\ (CycleEnds /\ last'.outcome = "Unchanged") => lastDataHash # Null
       /\ (lastDataHash = Null /\ lastDataHash' # Null) =>
             (CycleEnds /\ last'.outcome = "Updated")]_vars

\* C30: every key of the snapshot maps to a record whose nombre is that
\* key, so no two records of the snapshot have the same name and the record
\* found under a name is the record of that town
C30_KeysAreNames ==
    /\ \A k \in ObjectKeys(turismoDatos) : turismoDatos.props[k].nombre = k
    /\ \A r1, r2 \in ObjectValues(turismoDatos) : r1.nombre = r2.nombre => r1 = r2

\* a cycle accepted two records with the same name and the snapshot holds
\* one record under that name
C30_Witness ==
    /\ Accepted # Null
    /\ Len(Accepted[1]) = 2
    /\ Cardinality(Names(Accepted[1])) = 1
    /\ ObjectKeys(turismoDatos) = Names(Accepted[1])

====
